---- MODULE Spec2Model ----
(***************************************************************************)
(* Reward claiming for a list of Hive accounts with the posting authority  *)
(* of the first account of the list.                                       *)
(*                                                                         *)
(* The repository holds three scripts with a main() and two library        *)
(* modules:                                                                *)
(*   "standalone"  src/standalone/claim-rewards.py   (native rewards,      *)
(*                 counts successes, connects inside the orchestrator)     *)
(*   "main"        src/src/claim_rewards/main.py     (native rewards,      *)
(*                 connects in main(), sys.exit(1) on a failed connect)    *)
(*   "scot"        src/src/claim_rewards/scot.py     (sidechain tokens)    *)
(*   "scot_client" src/src/claim_rewards/scot_client.py                    *)
(*                 claim_scot_rewards_for_account, called once             *)
(*   "hive_client" src/src/claim_rewards/hive_client.py                    *)
(*                 claim_rewards, called once                              *)
(* A behaviour of Spec is one run of one of them; SpecLive is Spec with the *)
(* run taking its next step as long as it has one; SpecFormat is one call  *)
(* of format_token_amount.                                                 *)
(***************************************************************************)
EXTENDS Integers, Sequences, FiniteSets, TLC

\* ------------------------------------------------------------------ bounds

\* longest account list of a run
MaxAccounts == 2
\* most balances in one native reward snapshot
MaxBalances == 2
\* most decimal places of an amount and of a precision handed to
\* format_token_amount on its own
MaxPlaces == 4

\* ------------------------------------------------------------ value domains

\* Python's None, kept apart from every string the program handles
None == "<None>"

Names == {"alice", "bob"}
Symbols == {"SYM", "TOK"}
\* amounts of a native reward balance
Amounts == {0, 1}

Scripts == {"standalone", "main", "scot"}
Libraries == {"scot_client", "hive_client"}
Entries == Scripts \cup Libraries

\* all sequences over S of length at most n
SeqsUpTo(S, n) == UNION {[1..k -> S] : k \in 0..n}

Range(s) == {s[k] : k \in 1..Len(s)}
IsInjective(s) == \A a, b \in 1..Len(s) : s[a] = s[b] => a = b

\* ------------------------------------------------------------------ strings
\* A string is the sequence of its characters.

DigitChars == <<"0", "1", "2", "3", "4", "5", "6", "7", "8", "9">>

Pow10(e) == IF e = 0 THEN 1 ELSE IF e = 1 THEN 10 ELSE IF e = 2 THEN 100
            ELSE IF e = 3 THEN 1000 ELSE IF e = 4 THEN 10000 ELSE 100000

RECURSIVE NatToStr(_)
\* str(n) of a non-negative int
NatToStr(n) ==
    IF n < 10 THEN <<DigitChars[n + 1]>>
    ELSE NatToStr(n \div 10) \o <<DigitChars[(n % 10) + 1]>>

RECURSIVE PadDigits(_, _)
\* the last `width` decimal digits of n, zero padded on the left
PadDigits(n, width) ==
    IF width = 0 THEN <<>>
    ELSE PadDigits(n \div 10, width - 1) \o <<DigitChars[(n % 10) + 1]>>

RECURSIVE rstrip(_, _)
\* str.rstrip(ch): every trailing ch removed
rstrip(s, ch) ==
    IF s # <<>> /\ s[Len(s)] = ch THEN rstrip(SubSeq(s, 1, Len(s) - 1), ch)
    ELSE s

\* A float amount is kept as the exact decimal num / 10^exp it was computed as.
\* "{:.{precision}f}".format(amount): fixed notation with `precision` places,
\* the value rounded half to even when it has more places than that.
FixedFormat(amount, precision) ==
    LET scaled ==
            IF precision >= amount.exp
            THEN amount.num * Pow10(precision - amount.exp)
            ELSE LET d == Pow10(amount.exp - precision)
                     q == amount.num \div d
                     r == amount.num % d
                 IN  IF 2 * r > d \/ (2 * r = d /\ q % 2 = 1) THEN q + 1 ELSE q
        whole == scaled \div Pow10(precision)
        frac == scaled % Pow10(precision)
    IN  IF precision = 0 THEN NatToStr(whole)
        ELSE NatToStr(whole) \o <<".">> \o PadDigits(frac, precision)

\* ------------------------------------------------- sidechain reward amounts

\* float -> int conversion: truncation of a non-negative amount
int(amount) == amount.num \div Pow10(amount.exp)

\* scot_client.py: precision 0 is a bare integer, otherwise fixed notation
\* with the trailing zeroes and a then-dangling point removed
format_token_amount_scot_client(amount, precision) ==
    IF precision = 0 THEN NatToStr(int(amount))
    ELSE LET formatted == FixedFormat(amount, precision)
             stripped == rstrip(rstrip(formatted, "0"), ".")
         IN  IF "." \in Range(formatted)
             THEN (IF stripped = <<>> THEN <<"0">> ELSE stripped)
             ELSE formatted

\* scot.py: fixed notation with `precision` places, nothing removed
format_token_amount_scot(amount, precision) == FixedFormat(amount, precision)

\* the format_token_amount of the module the caller lives in
format_token_amount(module, amount, precision) ==
    IF module = "scot_client"
    THEN format_token_amount_scot_client(amount, precision)
    ELSE format_token_amount_scot(amount, precision)

\* One entry of the result of get_scot_rewards
RewardEntry(module, token) ==
    LET precision == token.precision
        pending_amount == [num |-> token.pending_token, exp |-> precision]
        staked_amount == [num |-> token.staked_tokens, exp |-> precision]
    IN  [symbol |-> token.symbol,
         pending |-> format_token_amount(module, pending_amount, precision),
         staked |-> format_token_amount(module, staked_amount, precision),
         precision |-> precision,
         raw_pending |-> token.pending_token]

\* the filter with >= in place of >
HasPending_IncludesZero(token) == token.pending_token >= 0

\* the filter of get_scot_rewards: tokens with pending rewards > 0
HasPending(token) == token.pending_token > 0

RECURSIVE PendingRewards(_, _)
\* the loop of get_scot_rewards over data.items(), in the order of the answer
PendingRewards(module, data) ==
    IF data = <<>> THEN <<>>
    ELSE (IF HasPending(Head(data)) THEN <<RewardEntry(module, Head(data))>> ELSE <<>>)
         \o PendingRewards(module, Tail(data))

\* get_scot_rewards: the answer of the index service is response.ok with the
\* decoded object response.data (token records in the order of the object), or
\* a network, status or decode error (~response.ok), which gives [].
get_scot_rewards(module, response) ==
    IF response.ok THEN PendingRewards(module, response.data) ELSE <<>>

\* answers of the index service: a JSON object, so each symbol at most once
Tokens(P, Pr, St) ==
    [symbol : Symbols, pending_token : P, precision : Pr, staked_tokens : St]
SymbolsOf(data) == [k \in 1..Len(data) |-> data[k].symbol]
ApiData(P, Pr, St) ==
    {d \in SeqsUpTo(Tokens(P, Pr, St), Cardinality(Symbols)) :
        IsInjective(SymbolsOf(d))}
ApiError == [ok |-> FALSE, data |-> <<>>]
ApiAnswers(P, Pr, St) ==
    {ApiError} \cup {[ok |-> TRUE, data |-> d] : d \in ApiData(P, Pr, St)}

\* ------------------------------------------------------------- credentials

\* bool(s) of an optional string
Truthy(s) == s # None /\ s # ""

\* get_posting_key with `is not None` tests in place of truthiness: an empty
\* CLI or config value is taken as the secret
get_posting_key_is_not_None(cli_posting_key, yaml_posting_key, env) ==
    LET posting_key ==
            IF cli_posting_key # None THEN cli_posting_key
            ELSE IF yaml_posting_key # None THEN yaml_posting_key
            ELSE env
    IN  IF ~Truthy(posting_key) THEN [exit |-> TRUE, key |-> None]
        ELSE [exit |-> FALSE, key |-> posting_key]

\* get_posting_key: the secret, or exit = TRUE for sys.exit(1).
\* env is os.getenv("POSTING_KEY"): None when the variable is not set.
get_posting_key(cli_posting_key, yaml_posting_key, env) ==
    LET posting_key ==
            IF Truthy(cli_posting_key) THEN cli_posting_key
            ELSE IF Truthy(yaml_posting_key) THEN yaml_posting_key
            ELSE env
    IN  IF ~Truthy(posting_key) THEN [exit |-> TRUE, key |-> None]
        ELSE [exit |-> FALSE, key |-> posting_key]

\* ----------------------------------------------------------- account loader

\* a config file: missing; unparsable (open or yaml.safe_load raises);
\* not_a_mapping (it parses, to a document without .get: an empty file, a
\* list, a scalar, so that data.get raises inside the same try); ok
FileStates == {"missing", "unparsable", "not_a_mapping", "ok"}

\* a loader that turns to ./accounts.yaml when the given path fails to load
load_accounts_and_posting_key_FallsBack(path, path_file, default_file, data) ==
    LET loaded == [exit |-> FALSE,
                   accounts |-> IF data.has_accounts THEN data.accounts ELSE <<>>,
                   posting_key |-> data.posting_key]
        failed == [exit |-> TRUE, accounts |-> <<>>, posting_key |-> None]
    IN  IF Truthy(path) /\ path_file = "ok" THEN loaded
        ELSE IF default_file = "ok" THEN loaded
        ELSE failed

\* load_accounts_and_posting_key: path is the --accounts argument (None when
\* not given), path_file the state of that file, default_file the state of
\* ./accounts.yaml, data the mapping a readable file parses to.
\* exit = TRUE is sys.exit(1).
load_accounts_and_posting_key(path, path_file, default_file, data) ==
    LET loaded == [exit |-> FALSE,
                   accounts |-> IF data.has_accounts THEN data.accounts ELSE <<>>,
                   posting_key |-> data.posting_key]
        failed == [exit |-> TRUE, accounts |-> <<>>, posting_key |-> None]
    IN  IF Truthy(path)
        THEN (IF path_file = "ok" THEN loaded ELSE failed)
        ELSE IF default_file # "missing"
        THEN (IF default_file = "ok" THEN loaded ELSE failed)
        ELSE failed

\* -------------------------------------------------------------------- state

VARIABLES
    entry,              \* the script that runs, or the library function called
    dry_run,            \* args.dry_run / the dry_run parameter
    pc,                 \* where control is
    exit_code,          \* the exit status of the process, -1 while it runs
    accounts,           \* the account list of the run
    yaml_posting_key,   \* the secret the config file holds, None when absent
    posting_key,        \* the active secret, None until resolved
    hive,               \* the connection session, "none" until connected
    connects,           \* connection attempts made
    main_account_name,  \* the authority account, None until designated
    main_account,       \* handle of the authority account, None until loaded
    idx,                \* 1-based position of the loop in accounts
    processed,          \* the accounts the loop has taken up, in that order
    target_account,     \* local of the loop: the last handle bound, None = unbound
    rewards,            \* local of the loop: the last reward snapshot fetched
    rewards_for,        \* position of the account `rewards` was fetched for
    fetched,            \* what the reward source answered for that account
    success_count,      \* success_count of standalone/claim-rewards.py
    summary,            \* the summary line logged after the loop: <<claimed, total>>
    outcome,            \* per processed account: claimed, nothing, skipped, failed
    fetch_ok,           \* per processed account: did its reward fetch succeed
    returns,            \* per processed account: what the claim function returned
    calls,              \* the broadcast calls made, in order
    last_call,          \* the last call made to a collaborator, and how it ended
    args_posting_key,   \* args.posting_key, None when not given or not yet parsed
    level,              \* the level of the logger: "INFO" or "DEBUG"
    log,                \* the values interpolated into the log records emitted
    arg_amount,         \* format_token_amount called on its own: its amount,
    arg_precision,      \* its precision,
    returned            \* and the string it returned, None until then

vars == <<entry, dry_run, pc, exit_code, accounts, yaml_posting_key, posting_key,
          hive, connects, main_account_name, main_account, idx, processed,
          target_account, rewards, rewards_for, fetched, success_count, summary, outcome, fetch_ok,
          returns, calls, last_call, args_posting_key, level, log,
          arg_amount, arg_precision, returned>>

\* the parsed --posting_key argument and the log
logVars == <<args_posting_key, level, log>>

\* the variables of a call of format_token_amount on its own
formatVars == <<arg_amount, arg_precision, returned>>

AccountLists == SeqsUpTo(Names, MaxAccounts)

\* what a readable config file parses to
FileData ==
    {d \in [has_accounts : BOOLEAN, accounts : AccountLists,
            posting_key : {None, "", "B"}] :
        ~d.has_accounts => d.accounts = <<>>}

\* native reward snapshots: the amounts of account.reward_balances
Snapshots == SeqsUpTo(Amounts, MaxBalances)

\* the answers of the index service a run sees
RunAnswers == ApiAnswers({0, 1500}, {3}, {2000})

NoCall == [fn |-> "none", args |-> <<>>, ok |-> TRUE]

Init ==
    /\ entry \in Entries
    /\ dry_run \in (IF entry = "hive_client" THEN {FALSE} ELSE BOOLEAN)
    /\ pc = IF entry \in Scripts THEN "parse" ELSE "loop"
    /\ exit_code = -1
    /\ accounts \in (IF entry \in Scripts THEN {<<>>} ELSE {<<n>> : n \in Names})
    /\ yaml_posting_key = None
    /\ posting_key = None
    /\ hive = IF entry \in Scripts THEN "none" ELSE "session"
    /\ connects = 0
    /\ main_account_name \in (IF entry = "scot_client" THEN Names ELSE {None})
    /\ main_account = None
    /\ idx = 1
    /\ processed = <<>>
    /\ target_account = None
    /\ rewards = <<>>
    /\ rewards_for = 0
    /\ fetched = <<>>
    /\ success_count = 0
    /\ summary = <<>>
    /\ outcome = <<>>
    /\ fetch_ok = <<>>
    /\ returns = <<>>
    /\ calls = <<>>
    /\ last_call = NoCall
    /\ args_posting_key = None
    /\ level = "INFO"
    /\ log = {}
    /\ arg_amount = None
    /\ arg_precision = None
    /\ returned = None

\* sys.exit(code), or the end of the script
Exit(code) ==
    /\ pc' = "exited"
    /\ exit_code' = code

\* an exception that leaves main(): `except Exception` of __main__, sys.exit(1)
Uncaught == Exit(1)

\* ------------------------------------------------------- main(): the set-up

loopVars == <<idx, processed, target_account, rewards, rewards_for, fetched, success_count, summary,
              outcome, fetch_ok, returns, calls>>

\* str(b) of a bool
str(b) == IF b THEN "True" ELSE "False"

\* a logger that emits every record, whatever its level
Emitted_Always(logger_level, record_level, values) == values

\* logger.debug(...) / logger.info(...): what reaches the handlers of a record
\* with these values interpolated. A DEBUG record is dropped unless the
\* logger is at DEBUG; the scripts log nothing below DEBUG.
Emitted(logger_level, record_level, values) ==
    IF record_level = "DEBUG" /\ logger_level # "DEBUG" THEN {} ELSE values

\* f"Parsed CLI arguments: {args}": the Namespace prints every argument,
\* posting_key included. main.py and scot.py log it; the standalone script
\* does not.
ParsedArguments(cli) == IF entry \in {"main", "scot"} THEN {cli} ELSE {}

\* main(): args = parser.parse_args(); logger.debug(f"Parsed CLI arguments:
\* {args}") in main.py and scot.py; then `if args.debug:` the logger is set to
\* DEBUG. The logger is still at INFO, from logging.basicConfig at import,
\* when the record of the arguments is made.
ParseArgs ==
    /\ pc = "parse"
    /\ \E cli \in {None, "", "A"}, debug \in BOOLEAN :
        /\ args_posting_key' = cli
        /\ log' = log \cup Emitted(level, "DEBUG", ParsedArguments(cli))
        /\ level' = IF debug THEN "DEBUG" ELSE level
    /\ pc' = "load"
    /\ UNCHANGED <<entry, dry_run, exit_code, accounts, yaml_posting_key, posting_key,
                   hive, connects, main_account_name, main_account, last_call>>
    /\ UNCHANGED <<loopVars, formatVars>>

\* main(): accounts, yaml_posting_key = load_accounts_and_posting_key(args.accounts)
Load ==
    /\ pc = "load"
    /\ \E path \in {None, "", "cfg.yaml"}, path_file, default_file \in FileStates,
          data \in FileData :
        LET r == load_accounts_and_posting_key(path, path_file, default_file, data)
        IN  /\ last_call' = [fn |-> "load_accounts_and_posting_key",
                             args |-> <<path, path_file, default_file,
                                       data.has_accounts>>,
                             ok |-> ~r.exit]
            /\ IF r.exit
               THEN Exit(1) /\ UNCHANGED <<accounts, yaml_posting_key>>
               ELSE /\ accounts' = r.accounts
                    /\ yaml_posting_key' = r.posting_key
                    /\ pc' = IF entry = "standalone" THEN "guard" ELSE "get_key"
                    /\ UNCHANGED exit_code
    /\ UNCHANGED <<entry, dry_run, posting_key, hive, connects, main_account_name,
                   main_account>>
    /\ UNCHANGED <<loopVars, formatVars, logVars>>

\* standalone/claim-rewards.py main(): `if not accounts: ... sys.exit(1)`
GuardAccounts ==
    /\ pc = "guard"
    /\ entry = "standalone"
    /\ IF accounts = <<>> THEN Exit(1) ELSE pc' = "get_key" /\ UNCHANGED exit_code
    /\ UNCHANGED <<entry, dry_run, accounts, yaml_posting_key, posting_key, hive,
                   connects, main_account_name, main_account, last_call>>
    /\ UNCHANGED <<loopVars, formatVars, logVars>>

\* main(): posting_key = get_posting_key(args.posting_key, yaml_posting_key).
\* Its first statement is the debug record
\* "... (cli_posting_key provided: {bool(cli_posting_key)}, yaml_posting_key
\* provided: {bool(yaml_posting_key)})"; its other records interpolate nothing.
GetPostingKey ==
    /\ pc = "get_key"
    /\ \E env \in {None, "", "C"} :
        LET r == get_posting_key(args_posting_key, yaml_posting_key, env)
        IN  /\ last_call' = [fn |-> "get_posting_key",
                             args |-> <<args_posting_key, yaml_posting_key, env>>,
                             ok |-> ~r.exit]
            /\ posting_key' = r.key
            /\ IF r.exit THEN Exit(1)
               ELSE /\ pc' = IF entry = "standalone" THEN "designate" ELSE "connect"
                    /\ UNCHANGED exit_code
    /\ log' = log \cup Emitted(level, "DEBUG",
                                {str(Truthy(args_posting_key)),
                                 str(Truthy(yaml_posting_key))})
    /\ UNCHANGED <<entry, dry_run, accounts, yaml_posting_key, hive, connects,
                   main_account_name, main_account, args_posting_key, level>>
    /\ UNCHANGED <<loopVars, formatVars>>

\* main(): main_account_name = accounts[0]; an empty list raises IndexError,
\* which no variant catches before __main__
Designate ==
    /\ pc = "designate"
    /\ IF accounts = <<>>
       THEN Uncaught /\ UNCHANGED main_account_name
       ELSE /\ main_account_name' = accounts[1]
            /\ pc' = CASE entry = "standalone" -> "connect"
                       [] entry = "main" -> "authority"
                       [] OTHER -> "loop"
            /\ UNCHANGED exit_code
    /\ UNCHANGED <<entry, dry_run, accounts, yaml_posting_key, posting_key, hive,
                   connects, main_account, last_call>>
    /\ UNCHANGED <<loopVars, formatVars, logVars>>

\* an Account made without blockchain_instance=: the handle is bound to the
\* shared instance of the library, not to the session of the run
blockchain_instance_Shared == "shared"

\* Account(name, blockchain_instance=hive): the session a handle is bound to,
\* and through which its lookups and its claim_reward_balance go
blockchain_instance == hive

\* connect_to_hive(posting_key) as its caller sees it.
\* main.py and scot.py: the function itself ends the process with sys.exit(1).
\* standalone/claim-rewards.py: the function re-raises, and
\* claim_rewards_for_all_accounts logs the error and returns, so main() ends
\* normally.
\* a failed connection that is tried again
ConnectFailed_Retry == pc' = "connect" /\ UNCHANGED exit_code

ConnectFailed ==
    IF entry = "standalone" THEN Exit(0) ELSE Exit(1)

Connect ==
    /\ pc = "connect"
    /\ connects' = connects + 1
    /\ \E ok \in BOOLEAN :
        /\ last_call' = [fn |-> "connect_to_hive", args |-> <<posting_key>>, ok |-> ok]
        /\ IF ok
           THEN /\ hive' = "session"
                /\ pc' = IF entry = "standalone" THEN "authority" ELSE "designate"
                /\ UNCHANGED exit_code
           ELSE ConnectFailed /\ UNCHANGED hive
    /\ UNCHANGED <<entry, dry_run, accounts, yaml_posting_key, posting_key,
                   main_account_name, main_account>>
    /\ UNCHANGED <<loopVars, formatVars, logVars>>

\* a failed lookup of the authority account that is only logged: the loop runs
AuthorityFailed_GoesOn == pc' = "loop" /\ UNCHANGED exit_code

\* main_account = Account(main_account_name, blockchain_instance=hive) before
\* the loop. standalone/claim-rewards.py catches the exception and returns;
\* main.py lets it leave claim_rewards_for_all_accounts and main().
AuthorityFailed ==
    IF entry = "standalone" THEN Exit(0) ELSE Uncaught

Authority ==
    /\ pc = "authority"
    /\ entry \in {"standalone", "main"}
    /\ \E ok \in BOOLEAN :
        /\ last_call' = [fn |-> "Account", args |-> <<main_account_name, blockchain_instance>>, ok |-> ok]
        /\ IF ok
           THEN /\ main_account' = main_account_name
                /\ pc' = "loop"
                /\ UNCHANGED exit_code
           ELSE AuthorityFailed /\ UNCHANGED main_account
    /\ UNCHANGED <<entry, dry_run, accounts, yaml_posting_key, posting_key, hive,
                   connects, main_account_name>>
    /\ UNCHANGED <<loopVars, formatVars, logVars>>

\* ------------------------------------------------------ the per-account loop

setupVars == <<entry, dry_run, accounts, yaml_posting_key, posting_key, hive,
               connects, main_account_name, main_account, logVars>>

account_name == accounts[idx]

\* an iteration that ends without the loop moving to the next account
Record_NoAdvance(result, fetch_succeeded) ==
    /\ outcome' = Append(outcome, result)
    /\ fetch_ok' = Append(fetch_ok, fetch_succeeded)
    /\ pc' = "loop"
    /\ UNCHANGED <<idx, exit_code>>

\* the end of one iteration: the outcome of the account is recorded and the
\* loop goes on with the next account
Record(result, fetch_succeeded) ==
    /\ outcome' = Append(outcome, result)
    /\ fetch_ok' = Append(fetch_ok, fetch_succeeded)
    /\ idx' = idx + 1
    /\ pc' = "loop"
    /\ UNCHANGED exit_code

\* the handler with a `raise` at its end: the exception leaves the loop
HandleException_Reraise(fetch_succeeded) ==
    /\ outcome' = Append(outcome, "failed")
    /\ fetch_ok' = Append(fetch_ok, fetch_succeeded)
    /\ UNCHANGED idx
    /\ Uncaught

\* the handler with a `break` at its end: the loop ends with the failed account
HandleException_Break(fetch_succeeded) ==
    /\ outcome' = Append(outcome, "failed")
    /\ fetch_ok' = Append(fetch_ok, fetch_succeeded)
    /\ idx' = Len(accounts) + 1
    /\ pc' = "loop"
    /\ UNCHANGED exit_code

\* a handler that takes the failed account up again
HandleException_Retry(fetch_succeeded) ==
    /\ pc' = "loop"
    /\ UNCHANGED <<idx, outcome, fetch_ok, exit_code>>

\* getattr(target_account, 'json', None) inside the f-string of the handler's
\* debug record: what evaluating it raises, None when it raises nothing.
\* A local that was never bound raises UnboundLocalError; a bound handle gives
\* its attribute, or the default None of getattr.
ReadJson(handle) == IF handle = None THEN "UnboundLocalError" ELSE None

\* a handler whose diagnostic is not inside a try of its own
NestedExcept_Absent(exc) == FALSE

\* the nested `try: ... except Exception:` around the diagnostic: does it
\* take the exception. UnboundLocalError is a NameError, an Exception.
NestedExcept(exc) == exc \in {"UnboundLocalError"}

\* `except Exception as e:` of the native loops: the error is logged, then
\* the diagnostic reads target_account, the handle of this account, of an
\* earlier one, or none at all. What the diagnostic raises and the nested
\* except takes stays in the iteration; anything else would leave the loop
\* and main().
HandleException(fetch_succeeded) ==
    LET exc == ReadJson(target_account)
    IN  IF exc # None /\ ~NestedExcept(exc)
        THEN /\ outcome' = Append(outcome, "failed")
             /\ fetch_ok' = Append(fetch_ok, fetch_succeeded)
             /\ UNCHANGED idx
             /\ Uncaught
        ELSE Record("failed", fetch_succeeded)

\* the three statements of a native iteration that can raise
NativeLookup ==
    /\ pc = "loop"
    /\ entry \in {"standalone", "main"}
    /\ idx <= Len(accounts)
    /\ processed' = Append(processed, account_name)
    /\ \E ok \in BOOLEAN :
        /\ last_call' = [fn |-> "Account", args |-> <<account_name, blockchain_instance>>, ok |-> ok]
        /\ IF ok
           THEN /\ target_account' = account_name
                /\ pc' = "fetch"
                /\ UNCHANGED <<idx, outcome, fetch_ok, exit_code>>
           ELSE HandleException(FALSE) /\ UNCHANGED target_account
    /\ UNCHANGED <<rewards, rewards_for, fetched, success_count, summary, returns, calls>>
    /\ UNCHANGED <<setupVars, formatVars>>

\* rewards = getattr(target_account, "reward_balances", []) and the decision
AllZero(snapshot) == \A k \in 1..Len(snapshot) : snapshot[k] = 0

\* the decision without its all-zero test
NothingToClaim_EmptyOnly(snapshot) == snapshot = <<>>

NothingToClaim(snapshot) == snapshot = <<>> \/ AllZero(snapshot)

NativeFetch ==
    /\ pc = "fetch"
    /\ \/ \E snapshot \in Snapshots :
            /\ last_call' = [fn |-> "reward_balances", args |-> <<target_account>>,
                             ok |-> TRUE]
            /\ rewards' = snapshot
            /\ rewards_for' = idx
            /\ fetched' = snapshot
            /\ IF NothingToClaim(snapshot)
               THEN Record("nothing", TRUE)
               ELSE pc' = "claim" /\ UNCHANGED <<idx, outcome, fetch_ok, exit_code>>
       \/ /\ last_call' = [fn |-> "reward_balances", args |-> <<target_account>>,
                           ok |-> FALSE]
          /\ HandleException(FALSE)
          /\ UNCHANGED <<rewards, rewards_for, fetched>>
    /\ UNCHANGED <<processed, target_account, success_count, summary, returns, calls>>
    /\ UNCHANGED <<setupVars, formatVars>>

\* success_count += 1 exists in standalone/claim-rewards.py only
Counted == IF entry = "standalone" THEN success_count + 1 ELSE success_count

\* main_account.claim_reward_balance(account=account_name)
NativeOp == [kind |-> "claim_reward_balance", signer |-> main_account,
             account |-> account_name]

\* a dry-run branch that broadcasts all the same
NativeSimulate_Broadcasts ==
    /\ calls' = Append(calls, [at |-> idx, for |-> account_name, op |-> NativeOp,
                               via |-> blockchain_instance, ok |-> TRUE])
    /\ success_count' = Counted
    /\ Record("claimed", TRUE)
    /\ UNCHANGED last_call

\* a dry-run branch without its success_count += 1
NativeSimulate_NotCounted ==
    /\ Record("claimed", TRUE)
    /\ UNCHANGED <<success_count, calls, last_call>>

\* the dry-run branch of the native loops: nothing is broadcast
NativeSimulate ==
    /\ success_count' = Counted
    /\ Record("claimed", TRUE)
    /\ UNCHANGED <<calls, last_call>>

\* the real branch with success_count += 1 ahead of the broadcast
NativeBroadcast_CountsFirst ==
    \E ok \in BOOLEAN :
        /\ calls' = Append(calls, [at |-> idx, for |-> account_name, op |-> NativeOp,
                               via |-> blockchain_instance, ok |-> ok])
        /\ last_call' = [fn |-> "claim_reward_balance",
                         args |-> <<main_account, account_name>>, ok |-> ok]
        /\ success_count' = Counted
        /\ IF ok THEN Record("claimed", TRUE) ELSE HandleException(TRUE)

\* the real branch of the native loops
NativeBroadcast ==
    \E ok \in BOOLEAN :
        /\ calls' = Append(calls, [at |-> idx, for |-> account_name, op |-> NativeOp,
                               via |-> blockchain_instance, ok |-> ok])
        /\ last_call' = [fn |-> "claim_reward_balance",
                         args |-> <<main_account, account_name>>, ok |-> ok]
        /\ IF ok
           THEN success_count' = Counted /\ Record("claimed", TRUE)
           ELSE HandleException(TRUE) /\ UNCHANGED success_count

NativeClaim ==
    /\ pc = "claim"
    /\ IF dry_run THEN NativeSimulate ELSE NativeBroadcast
    /\ UNCHANGED <<processed, target_account, rewards, rewards_for, fetched, summary, returns>>
    /\ UNCHANGED <<setupVars, formatVars>>

\* ------------------------------------- claim_scot_rewards_for_account (scot)

\* the module whose functions run
module == IF entry = "scot" THEN "scot" ELSE "scot_client"

\* what claim_scot_rewards_for_account returns for the account
Return(value, result, fetch_succeeded) ==
    /\ returns' = Append(returns, value)
    /\ Record(result, fetch_succeeded)

\* tokens_to_claim: one {"symbol": ...} per entry of rewards
TokensToClaim(rs) == [k \in 1..Len(rs) |-> [symbol |-> rs[k].symbol]]

\* hive.custom_json(id="scot_claim_token", json_data=tokens_to_claim,
\*                  required_posting_auths=[main_account_name]).
\* scot.py passes required_auths=[] too, and the list as json=json.dumps(...):
\* json is the document the operation carries, here the list it encodes.
\* Whether the library accepts the call is its ok/raise outcome.
ScotOp == [kind |-> "custom_json", id |-> "scot_claim_token",
           json |-> TokensToClaim(rewards),
           required_auths |-> <<>>,
           required_posting_auths |-> <<main_account_name>>]

\* a get_scot_rewards without its `except Exception`: the error of the index
\* service reaches the handler of claim_scot_rewards_for_account
ScotFetch_ErrorPropagates ==
    /\ pc = "loop"
    /\ entry \in {"scot", "scot_client"}
    /\ idx <= Len(accounts)
    /\ processed' = Append(processed, account_name)
    /\ \E answer \in RunAnswers :
        LET rs == get_scot_rewards(module, answer)
        IN  /\ last_call' = [fn |-> "requests.get", args |-> <<account_name>>,
                             ok |-> answer.ok]
            /\ rewards' = rs
            /\ rewards_for' = idx
            /\ fetched' = answer
            /\ IF ~answer.ok THEN Return(FALSE, "failed", FALSE)
               ELSE IF rs = <<>> THEN Return(TRUE, "nothing", TRUE)
               ELSE IF dry_run THEN Return(TRUE, "claimed", TRUE)
               ELSE /\ pc' = "scot_authority"
                    /\ UNCHANGED <<idx, outcome, fetch_ok, returns, exit_code>>
    /\ UNCHANGED <<target_account, success_count, summary, calls>>
    /\ UNCHANGED <<setupVars, formatVars>>

\* rewards = get_scot_rewards(account_name), `if not rewards`, `if dry_run`
ScotFetch ==
    /\ pc = "loop"
    /\ entry \in {"scot", "scot_client"}
    /\ idx <= Len(accounts)
    /\ processed' = Append(processed, account_name)
    /\ \E answer \in RunAnswers :
        LET rs == get_scot_rewards(module, answer)
        IN  /\ last_call' = [fn |-> "requests.get", args |-> <<account_name>>,
                             ok |-> answer.ok]
            /\ rewards' = rs
            /\ rewards_for' = idx
            /\ fetched' = answer
            /\ IF rs = <<>> THEN Return(TRUE, "nothing", answer.ok)
               ELSE IF dry_run THEN Return(TRUE, "claimed", TRUE)
               ELSE /\ pc' = "scot_authority"
                    /\ UNCHANGED <<idx, outcome, fetch_ok, returns, exit_code>>
    /\ UNCHANGED <<target_account, success_count, summary, calls>>
    /\ UNCHANGED <<setupVars, formatVars>>

\* a claim_scot_rewards_for_account without its `except Exception`: a failed
\* lookup of the authority account leaves the function, which returns nothing
ScotAuthority_Raises ==
    /\ pc = "scot_authority"
    /\ \E ok \in BOOLEAN :
        /\ last_call' = [fn |-> "Account", args |-> <<main_account_name, blockchain_instance>>, ok |-> ok]
        /\ IF ok
           THEN /\ pc' = "scot_broadcast"
                /\ UNCHANGED <<idx, outcome, fetch_ok, returns, exit_code>>
           ELSE Record("failed", TRUE) /\ UNCHANGED returns
    /\ UNCHANGED <<processed, target_account, rewards, rewards_for, fetched, success_count,
                   summary, calls>>
    /\ UNCHANGED <<setupVars, formatVars>>

\* Account(main_account_name, blockchain_instance=hive): the handle is dropped;
\* an exception reaches the function's `except Exception`, which returns False
ScotAuthority ==
    /\ pc = "scot_authority"
    /\ \E ok \in BOOLEAN :
        /\ last_call' = [fn |-> "Account", args |-> <<main_account_name, blockchain_instance>>, ok |-> ok]
        /\ IF ok
           THEN /\ pc' = "scot_broadcast"
                /\ UNCHANGED <<idx, outcome, fetch_ok, returns, exit_code>>
           ELSE Return(FALSE, "failed", TRUE)
    /\ UNCHANGED <<processed, target_account, rewards, rewards_for, fetched, success_count,
                   summary, calls>>
    /\ UNCHANGED <<setupVars, formatVars>>

ScotBroadcast ==
    /\ pc = "scot_broadcast"
    /\ \E ok \in BOOLEAN :
        /\ calls' = Append(calls, [at |-> idx, for |-> account_name, op |-> ScotOp,
                               via |-> hive, ok |-> ok])
        /\ last_call' = [fn |-> "custom_json", args |-> <<main_account_name>>, ok |-> ok]
        /\ IF ok THEN Return(TRUE, "claimed", TRUE)
           ELSE Return(FALSE, "failed", TRUE)
    /\ UNCHANGED <<processed, target_account, rewards, rewards_for, fetched, success_count,
                   summary>>
    /\ UNCHANGED <<setupVars, formatVars>>

\* ------------------------------------------------ claim_rewards (hive_client)

\* reward_hive_balance, reward_hbd_balance, reward_vesting_balance
NumRewardAttributes == 3

\* getattr(account, name, None): <<>> is None, <<a>> a balance of amount a
OptionalBalances == {<<>>} \cup {<<a>> : a \in Amounts}

HiveClientLookup ==
    /\ pc = "loop"
    /\ entry = "hive_client"
    /\ idx <= Len(accounts)
    /\ processed' = Append(processed, account_name)
    /\ \E ok \in BOOLEAN :
        /\ last_call' = [fn |-> "Account", args |-> <<account_name, blockchain_instance>>, ok |-> ok]
        /\ IF ok
           THEN /\ target_account' = account_name
                /\ pc' = "hc_fetch"
                /\ UNCHANGED <<idx, outcome, fetch_ok, returns, exit_code>>
           ELSE Return(FALSE, "failed", FALSE) /\ UNCHANGED target_account
    /\ UNCHANGED <<rewards, rewards_for, fetched, success_count, summary, calls>>
    /\ UNCHANGED <<setupVars, formatVars>>

\* `None in (reward_hive, reward_hbd, reward_vests)`
AnyMissing(balances) == \E k \in 1..Len(balances) : balances[k] = <<>>

\* the test with >= in place of >
AnyPositive_IncludesZero(balances) == \E k \in 1..Len(balances) : balances[k][1] >= 0

\* any(getattr(reward, "amount", 0) > 0 for reward in [...])
AnyPositive(balances) == \E k \in 1..Len(balances) : balances[k][1] > 0

HiveClientFetch ==
    /\ pc = "hc_fetch"
    /\ \E balances \in [1..NumRewardAttributes -> OptionalBalances] :
        /\ last_call' = [fn |-> "getattr", args |-> <<target_account>>, ok |-> TRUE]
        /\ rewards' = balances
        /\ rewards_for' = idx
        /\ fetched' = balances
        /\ IF AnyMissing(balances) THEN Return(FALSE, "skipped", FALSE)
           ELSE IF AnyPositive(balances)
           THEN /\ pc' = "hc_claim"
                /\ UNCHANGED <<idx, outcome, fetch_ok, returns, exit_code>>
           ELSE Return(TRUE, "nothing", TRUE)
    /\ UNCHANGED <<processed, target_account, success_count, summary, calls>>
    /\ UNCHANGED <<setupVars, formatVars>>

\* account.claim_reward_balance(): the account claims for itself
HiveClientOp == [kind |-> "claim_reward_balance", signer |-> target_account,
                 account |-> target_account]

HiveClientClaim ==
    /\ pc = "hc_claim"
    /\ \E ok \in BOOLEAN :
        /\ calls' = Append(calls, [at |-> idx, for |-> account_name, op |-> HiveClientOp,
                               via |-> blockchain_instance, ok |-> ok])
        /\ last_call' = [fn |-> "claim_reward_balance", args |-> <<target_account>>,
                         ok |-> ok]
        /\ IF ok THEN Return(TRUE, "claimed", TRUE)
           ELSE Return(FALSE, "failed", TRUE)
    /\ UNCHANGED <<processed, target_account, rewards, rewards_for, fetched, success_count,
                   summary>>
    /\ UNCHANGED <<setupVars, formatVars>>

\* ------------------------------------------------------------ after the loop

\* an end of the run that reports failed accounts in the exit status
Finish_FailOnError ==
    /\ pc = "loop"
    /\ idx > Len(accounts)
    /\ summary' = IF entry = "standalone" THEN <<success_count, Len(accounts)>>
                  ELSE summary
    /\ IF entry \in Scripts
       THEN Exit(IF \E k \in 1..Len(outcome) : outcome[k] = "failed" THEN 1 ELSE 0)
       ELSE pc' = "returned" /\ UNCHANGED exit_code
    /\ UNCHANGED <<processed, idx, target_account, rewards, rewards_for, fetched, success_count,
                   outcome, fetch_ok, returns, calls, last_call>>
    /\ UNCHANGED <<setupVars, formatVars>>

\* the list is exhausted: standalone/claim-rewards.py logs
\* "Successfully processed {success_count} out of {len(accounts)} accounts";
\* a script then ends normally, a library function has returned.
Finish ==
    /\ pc = "loop"
    /\ idx > Len(accounts)
    /\ summary' = IF entry = "standalone" THEN <<success_count, Len(accounts)>>
                  ELSE summary
    /\ IF entry \in Scripts THEN Exit(0)
       ELSE pc' = "returned" /\ UNCHANGED exit_code
    /\ UNCHANGED <<processed, idx, target_account, rewards, rewards_for, fetched, success_count,
                   outcome, fetch_ok, returns, calls, last_call>>
    /\ UNCHANGED <<setupVars, formatVars>>

Next ==
    \/ ParseArgs
    \/ Load
    \/ GuardAccounts
    \/ GetPostingKey
    \/ Designate
    \/ Connect
    \/ Authority
    \/ NativeLookup
    \/ NativeFetch
    \/ NativeClaim
    \/ ScotFetch
    \/ ScotAuthority
    \/ ScotBroadcast
    \/ HiveClientLookup
    \/ HiveClientFetch
    \/ HiveClientClaim
    \/ Finish

Spec == Init /\ [][Next]_vars

\* A run is one sequential process: the interpreter takes the next step as
\* long as there is one, and a call to a collaborator returns or raises.
SpecLive == Init /\ [][Next]_vars /\ WF_vars(Next)

\* ------------------------------------------ format_token_amount on its own

FormatNumerators == {0, 5, 7, 50, 123, 1230, 12300, 9996}

\* rounding num / 10^exp to `places` places is a tie between two neighbours
IsTie(num, exp, places) ==
    places < exp /\ 2 * (num % Pow10(exp - places)) = Pow10(exp - places)

\* The amounts format_token_amount is called with: num / 10^exp. Decimal ties
\* are left out: the float nearest to one lies on either side of it, and the
\* digit it rounds to is a matter of the float, not of the function.
FormatAmounts ==
    {a \in [num : FormatNumerators, exp : 0..MaxPlaces] :
        \A places \in 0..MaxPlaces : ~IsTie(a.num, a.exp, places)}

FormatInit ==
    /\ entry \in {"scot", "scot_client"}
    /\ pc = "format"
    /\ arg_amount \in FormatAmounts
    /\ arg_precision \in 0..MaxPlaces
    /\ returned = None
    /\ dry_run = FALSE
    /\ exit_code = -1
    /\ accounts = <<>>
    /\ yaml_posting_key = None
    /\ posting_key = None
    /\ hive = "none"
    /\ connects = 0
    /\ main_account_name = None
    /\ main_account = None
    /\ idx = 1
    /\ processed = <<>>
    /\ target_account = None
    /\ rewards = <<>>
    /\ rewards_for = 0
    /\ fetched = <<>>
    /\ success_count = 0
    /\ summary = <<>>
    /\ outcome = <<>>
    /\ fetch_ok = <<>>
    /\ returns = <<>>
    /\ calls = <<>>
    /\ last_call = NoCall
    /\ args_posting_key = None
    /\ level = "INFO"
    /\ log = {}

\* format_token_amount(amount, precision) of the module `entry` returns
FormatTokenAmount ==
    /\ pc = "format"
    /\ returned' = format_token_amount(module, arg_amount, arg_precision)
    /\ pc' = "formatted"
    /\ UNCHANGED <<exit_code, arg_amount, arg_precision, last_call>>
    /\ UNCHANGED <<setupVars, loopVars>>

FormatNext == FormatTokenAmount

SpecFormat == FormatInit /\ [][FormatNext]_vars

\* =================================================================== claims

\* a source that yields a value: given, and not the empty string
Provided(s) == s # None /\ s # ""

\* the loop has recorded an outcome for the account `rewards` was fetched for
Decided == rewards_for >= 1 /\ rewards_for <= Len(outcome)

CallsAt(k) == {c \in 1..Len(calls) : calls[c].at = k}

Count(seq, v) == Cardinality({k \in 1..Len(seq) : seq[k] = v})

\* the amounts of the snapshot the reward source answered with
FetchedAmounts ==
    CASE entry \in {"standalone", "main"} -> fetched
      [] entry \in {"scot", "scot_client"} ->
            [k \in 1..Len(fetched.data) |-> fetched.data[k].pending_token]
      [] OTHER -> [k \in 1..Len(fetched) |->
                      IF fetched[k] = <<>> THEN 0 ELSE fetched[k][1]]

\* the snapshot was obtained: not a failed fetch, no balance attribute missing
FetchedKnown ==
    CASE entry \in {"standalone", "main"} -> TRUE
      [] entry \in {"scot", "scot_client"} -> fetched.ok
      [] OTHER -> \A k \in 1..Len(fetched) : fetched[k] # <<>>

\* C1: get_posting_key returns the first non-empty of CLI, config file and
\* environment, in that order; what it returns is never empty; when none of
\* the three is non-empty the process exits with code 1 and nothing is returned.
C1_KeyPrecedence ==
    /\ last_call.fn = "get_posting_key" =>
         LET cli == last_call.args[1]
             yaml == last_call.args[2]
             env == last_call.args[3]
         IN  /\ Provided(cli) => posting_key = cli /\ pc # "exited"
             /\ ~Provided(cli) /\ Provided(yaml) => posting_key = yaml /\ pc # "exited"
             /\ ~Provided(cli) /\ ~Provided(yaml) /\ Provided(env) =>
                    posting_key = env /\ pc # "exited"
             /\ ~Provided(cli) /\ ~Provided(yaml) /\ ~Provided(env) =>
                    pc = "exited" /\ exit_code = 1 /\ posting_key = None
    /\ posting_key # ""
    /\ pc \in {"designate", "connect", "authority", "fetch", "claim",
               "scot_authority", "scot_broadcast"} /\ entry \in Scripts
         => Provided(posting_key)

\* an empty CLI value and an empty config value fall through to the environment
C1_Witness ==
    /\ last_call.fn = "get_posting_key"
    /\ last_call.args = <<"", "", "C">>
    /\ posting_key = "C"

\* C2: when processing an account fails (lookup, reward fetch or broadcast),
\* the run does not end there: it ends only with every account of the list
\* processed.
C2_FailureIsolation ==
    (\E k \in 1..Len(outcome) : outcome[k] = "failed") =>
         /\ idx = Len(outcome) + 1
         /\ pc \in {"exited", "returned"} => Len(outcome) = Len(accounts)

\* the first account failed and the second was still claimed
C2_Witness ==
    /\ pc = "exited"
    /\ Len(accounts) = 2
    /\ outcome = <<"failed", "claimed">>
    /\ ~dry_run

\* C3: an account whose reward snapshot is empty or all zero ends as
\* nothing-to-claim and no broadcast is made for it, dry run or not.
C3_ZeroSnapshotNoBroadcast ==
    /\ rewards_for >= 1 /\ FetchedKnown
       /\ (\A k \in 1..Len(FetchedAmounts) : FetchedAmounts[k] = 0) =>
         /\ Decided
         /\ outcome[rewards_for] = "nothing"
         /\ CallsAt(rewards_for) = {}
    /\ \A c \in 1..Len(calls) : calls[c].at <= Len(outcome) =>
         outcome[calls[c].at] # "nothing"

\* a real run met an account with a non-empty snapshot of zeroes
C3_Witness ==
    /\ ~dry_run
    /\ entry = "standalone"
    /\ Decided
    /\ fetched = <<0, 0>>
    /\ outcome[rewards_for] = "nothing"
    /\ calls # <<>>

\* C4: a dry run never makes a broadcast call, and every account with a
\* positive amount is recorded as claimed: success_count counts it in
\* standalone/claim-rewards.py, claim_scot_rewards_for_account returns True.
C4_DryRun ==
    dry_run =>
        /\ calls = <<>>
        /\ Decided /\ FetchedKnown
           /\ (\E k \in 1..Len(FetchedAmounts) : FetchedAmounts[k] > 0) =>
             /\ outcome[rewards_for] = "claimed"
             /\ entry \in {"scot", "scot_client"} => returns[rewards_for] = TRUE
        /\ entry = "standalone" => success_count = Count(outcome, "claimed")
        /\ \A k \in 1..Len(outcome) : outcome[k] = "claimed" \/ outcome[k] = "nothing"
             \/ (entry \in {"standalone", "main"} /\ ~fetch_ok[k])

\* a dry run recorded two claims
C4_Witness ==
    /\ dry_run
    /\ entry = "standalone"
    /\ pc = "exited"
    /\ success_count = 2
    /\ outcome = <<"claimed", "claimed">>

\* the set-up of a script succeeded: the loop was entered
LoopEntered ==
    /\ hive = "session"
    /\ main_account_name # None
    /\ entry \in {"standalone", "main"} => main_account # None

\* C5: when the reward source fails for every account, the orchestrator still
\* goes through the whole list, claims nothing, and the summary of
\* standalone/claim-rewards.py reports 0 out of len(accounts).
C5_AllFetchesFail ==
    pc = "exited" /\ entry \in Scripts /\ LoopEntered
    /\ (\A k \in 1..Len(fetch_ok) : ~fetch_ok[k]) =>
        /\ Len(outcome) = Len(accounts)
        /\ Len(fetch_ok) = Len(accounts)
        /\ Count(outcome, "claimed") = 0
        /\ calls = <<>>
        /\ entry = "standalone" => summary = <<0, Len(accounts)>>

\* two accounts, both fetches failed, the summary was logged
C5_Witness ==
    /\ pc = "exited"
    /\ entry = "standalone"
    /\ Len(accounts) = 2
    /\ fetch_ok = <<FALSE, FALSE>>
    /\ summary = <<0, 2>>

\* an unrecoverable configuration or connection error ended the run: the
\* config file could not be loaded, no secret was found, the account list is
\* missing, or the connection failed
FatalError ==
    \/ last_call.fn = "load_accounts_and_posting_key" /\ ~last_call.ok
    \/ last_call.fn = "get_posting_key" /\ ~last_call.ok
    \/ accounts = <<>>
    \/ last_call.fn = "connect_to_hive" /\ ~last_call.ok

\* C6: a run that an unrecoverable configuration or connection error ended
\* has exit code 1.
C6_FatalErrorExitsOne ==
    pc = "exited" /\ entry \in Scripts /\ FatalError => exit_code = 1

\* configuration and connection succeeded
ConfigAndConnectionOk ==
    /\ entry \in Scripts
    /\ accounts # <<>>
    /\ Provided(posting_key)
    /\ hive = "session"

\* C7 as stated: with configuration and connection successful the process
\* exits with code 0.
C7_ExitZeroAfterConnect ==
    pc = "exited" /\ ConfigAndConnectionOk => exit_code = 0

\* C7 amended: with configuration and connection successful and, in main.py,
\* the authority account resolved before the loop, the process exits with
\* code 0 whatever the outcomes of the accounts.
C7_ExitZeroAfterSetUp ==
    pc = "exited" /\ ConfigAndConnectionOk
    /\ (entry = "main" => main_account # None) => exit_code = 0

\* every account of the list failed and the exit code is 0
C7_Witness ==
    /\ pc = "exited"
    /\ exit_code = 0
    /\ entry = "main"
    /\ outcome = <<"failed", "failed">>

\* the account a broadcast operation is signed with
Signer(op) ==
    IF op.kind = "custom_json" THEN op.required_posting_auths[1] ELSE op.signer

\* the accounts a broadcast operation names
NamedAccounts(op) ==
    IF op.kind = "custom_json"
    THEN Range(op.required_auths) \cup Range(op.required_posting_auths)
    ELSE {op.signer, op.account}

\* C8: every operation broadcast in a real run is signed with the authority
\* account, in a script the first account of the list, and names the account
\* it claims for, so the operations issued for two different target accounts
\* differ.
C8_OperationNamesTarget ==
    \A c \in 1..Len(calls) :
        calls[c].ok =>
            /\ entry \in Scripts => Signer(calls[c].op) = accounts[1]
            /\ calls[c].for \in NamedAccounts(calls[c].op)
            /\ \A d \in 1..Len(calls) :
                 calls[d].ok /\ calls[c].for # calls[d].for
                    => calls[c].op # calls[d].op

C9_Pending(token) == token.pending_token > 0

\* the {symbol} objects of the tokens of an answer with pending rewards > 0
C9_Payload(data) ==
    LET pending == SelectSeq(data, C9_Pending)
    IN  [k \in 1..Len(pending) |-> [symbol |-> pending[k].symbol]]

C10_Trimmed(raw, precision) ==
    LET whole == raw \div Pow10(precision)
        frac == raw % Pow10(precision)
        zeroes == CHOOSE z \in 0..precision :
                     /\ frac % Pow10(z) = 0
                     /\ \A y \in (z + 1)..precision : frac % Pow10(y) # 0
    IN  IF zeroes = precision THEN NatToStr(whole)
        ELSE NatToStr(whole) \o <<".">>
             \o PadDigits(frac \div Pow10(zeroes), precision - zeroes)

C10_Entries(data) ==
    LET pending == SelectSeq(data, C9_Pending)
    IN  [k \in 1..Len(pending) |->
            [symbol |-> pending[k].symbol,
             pending |-> C10_Trimmed(pending[k].pending_token, pending[k].precision),
             staked |-> C10_Trimmed(pending[k].staked_tokens, pending[k].precision),
             precision |-> pending[k].precision,
             raw_pending |-> pending[k].pending_token]]

\* C10: get_scot_rewards returns one entry per token with pending_token > 0,
\* pending and staked rendered as raw / 10^precision without trailing zeroes,
\* precision copied, raw_pending the raw pending_token.
C10_GetScotRewards ==
    entry \in {"scot", "scot_client"} /\ rewards_for >= 1 /\ fetched.ok =>
        rewards = C10_Entries(fetched.data)

\* the number of characters of s after its decimal point, 0 without a point
Places(s) ==
    IF "." \in Range(s)
    THEN Len(s) - (CHOOSE k \in 1..Len(s) : s[k] = ".")
    ELSE 0

\* C11: format_token_amount gives a non-empty string of at most `precision`
\* decimal places, without trailing zeroes or a dangling point, a bare integer
\* for precision 0; an amount of no more places than the precision is rendered
\* exactly; 1.2300 at precision 4 gives "1.23" and 5 at precision 0 gives "5".
C11_FormatTokenAmount ==
    pc = "formatted" =>
        /\ returned # <<>>
        /\ arg_precision = 0 => "." \notin Range(returned)
        /\ Places(returned) <= arg_precision
        /\ "." \in Range(returned) => returned[Len(returned)] \notin {"0", "."}
        /\ arg_amount.exp <= arg_precision =>
              returned = C10_Trimmed(
                  arg_amount.num * Pow10(arg_precision - arg_amount.exp),
                  arg_precision)
        /\ arg_amount.num = 123 * Pow10(arg_amount.exp - 2) /\ arg_amount.exp >= 2
           /\ arg_precision = 4 => returned = <<"1", ".", "2", "3">>
        /\ arg_amount = [num |-> 5, exp |-> 0] /\ arg_precision = 0
              => returned = <<"5">>

\* C12: when the index service fails for an account (network, status or
\* decode error) get_scot_rewards gives the empty list, the account ends as
\* nothing-to-claim without a broadcast, and claim_scot_rewards_for_account
\* returns True.
C12_FetchErrorIsNothing ==
    entry \in {"scot", "scot_client"} /\ rewards_for >= 1 /\ ~fetched.ok =>
        /\ rewards = <<>>
        /\ Decided
        /\ outcome[rewards_for] = "nothing"
        /\ returns[rewards_for] = TRUE
        /\ CallsAt(rewards_for) = {}

\* a real run: the index service failed for the second account after a
\* broadcast for the first
C12_Witness ==
    /\ entry = "scot"
    /\ ~dry_run
    /\ pc = "exited"
    /\ Len(calls) = 1
    /\ rewards_for = 2
    /\ ~fetched.ok
    /\ outcome = <<"claimed", "nothing">>
    /\ returns = <<TRUE, TRUE>>

\* one of the three balance attributes of the snapshot is unavailable
C13_Missing == \E k \in 1..NumRewardAttributes : fetched[k] = <<>>

\* one of the three balances of the snapshot has a positive amount
C13_Positive == \E k \in 1..NumRewardAttributes : fetched[k] # <<>> /\ fetched[k][1] > 0

\* C13: hive_client.claim_rewards never raises; with a balance attribute
\* unavailable the account is skipped without a broadcast and False is
\* returned; otherwise a claim is broadcast exactly when a balance is
\* positive; True is returned when rewards were claimed or there were none,
\* False on missing data or an exception.
C13_HiveClientClaimRewards ==
    entry = "hive_client" =>
        /\ pc # "exited" /\ exit_code = -1
        /\ rewards_for = 1 /\ C13_Missing =>
              outcome = <<"skipped">> /\ returns = <<FALSE>> /\ calls = <<>>
        /\ rewards_for = 1 /\ ~C13_Missing /\ Len(outcome) = 1 =>
              /\ C13_Positive <=> Len(calls) = 1
              /\ ~C13_Positive => outcome = <<"nothing">> /\ returns = <<TRUE>>
              /\ C13_Positive /\ calls[1].ok => outcome = <<"claimed">> /\ returns = <<TRUE>>
              /\ C13_Positive /\ ~calls[1].ok => outcome = <<"failed">> /\ returns = <<FALSE>>
        /\ rewards_for = 0 => calls = <<>>
        /\ rewards_for = 0 /\ Len(outcome) = 1 =>
              outcome = <<"failed">> /\ returns = <<FALSE>>
        /\ pc = "returned" => Len(returns) = 1

\* the call returned True after a broadcast for a snapshot with one positive
\* balance
C13_Witness ==
    /\ entry = "hive_client"
    /\ pc = "returned"
    /\ fetched = <<<<0>>, <<1>>, <<0>>>>
    /\ Len(calls) = 1
    /\ returns = <<TRUE>>

\* an account of the list has been looked up, fetched or claimed for
AccountTouched ==
    \/ target_account # None
    \/ outcome # <<>>
    \/ rewards_for >= 1
    \/ calls # <<>>
    \/ pc \in {"fetch", "claim", "scot_authority", "scot_broadcast"}

\* the connection or, with no handle of the authority account held, an
\* account lookup has just failed
SetUpFailed ==
    \/ last_call.fn = "connect_to_hive" /\ ~last_call.ok
    \/ last_call.fn = "Account" /\ ~last_call.ok /\ main_account = None

\* C14: in the native scripts no account is looked up, fetched or claimed
\* for before the connection and the lookup of the authority account have
\* succeeded, and a failure of either ends the run with no account processed.
\* The sidechain script holds no handle of the authority account; it looks
\* the account up for each account with rewards in a real run, and a failure
\* there is that account's failure, after which the loop goes on.
C14_SetUpBeforeAccounts ==
    /\ entry \in {"standalone", "main"} =>
          /\ AccountTouched => hive = "session" /\ main_account # None
          /\ SetUpFailed => pc = "exited" /\ ~AccountTouched
    /\ entry = "scot" =>
          /\ main_account = None
          /\ AccountTouched => hive = "session"
          /\ last_call.fn = "Account" =>
                ~dry_run /\ rewards # <<>> /\ rewards_for >= 1
          /\ last_call.fn = "Account" /\ ~last_call.ok =>
                /\ Len(outcome) = rewards_for
                /\ outcome[rewards_for] = "failed"
                /\ returns[rewards_for] = FALSE
                /\ CallsAt(rewards_for) = {}
                /\ idx = rewards_for + 1
                /\ pc \in {"loop", "exited"}
                /\ pc = "exited" => exit_code = 0 /\ Len(outcome) = Len(accounts)

\* the sidechain script met two accounts with rewards and failed to resolve
\* the authority account for each
C14_Witness ==
    /\ entry = "scot"
    /\ ~dry_run
    /\ pc = "exited"
    /\ exit_code = 0
    /\ fetch_ok = <<TRUE, TRUE>>
    /\ outcome = <<"failed", "failed">>
    /\ calls = <<>>

\* C15: in the script that keeps success_count, the counter is at every
\* point the number of accounts already recorded as claimed, real or
\* simulated, so it lies between 0 and len(accounts); once the list is
\* exhausted the summary reports that number out of len(accounts).
C15_SuccessCount ==
    entry = "standalone" =>
        /\ success_count = Count(outcome, "claimed")
        /\ 0 <= success_count
        /\ success_count <= Len(outcome)
        /\ Len(outcome) <= Len(accounts)
        /\ summary # <<>> =>
              /\ Len(outcome) = Len(accounts)
              /\ summary = <<Count(outcome, "claimed"), Len(accounts)>>
        /\ pc = "exited" /\ LoopEntered => summary # <<>>

\* a real run of two accounts: one claimed, one failed at its broadcast
C15_Witness ==
    /\ entry = "standalone"
    /\ ~dry_run
    /\ pc = "exited"
    /\ outcome = <<"claimed", "failed">>
    /\ Len(calls) = 2
    /\ summary = <<1, 2>>

\* C16: the loader ends the process with code 1 when the given path cannot
\* be read or parsed, whatever the state of ./accounts.yaml, and when no path
\* is given and there is no ./accounts.yaml; when the file it reads loads and
\* has no accounts key it returns the empty list.
C16_LoaderExits ==
    last_call.fn = "load_accounts_and_posting_key" =>
        LET path == last_call.args[1]
            path_file == last_call.args[2]
            default_file == last_call.args[3]
            has_accounts == last_call.args[4]
            loads == IF Provided(path) THEN path_file = "ok" ELSE default_file = "ok"
            exits == ~last_call.ok /\ pc = "exited" /\ exit_code = 1
        IN  /\ Provided(path) /\ path_file \in {"missing", "unparsable"} => exits
            /\ ~Provided(path) /\ default_file = "missing" => exits
            /\ loads => last_call.ok
            /\ loads /\ ~has_accounts => accounts = <<>>
            /\ ~last_call.ok => accounts = <<>> /\ yaml_posting_key = None

\* the given path could not be parsed while ./accounts.yaml was fine
C16_Witness ==
    /\ last_call.fn = "load_accounts_and_posting_key"
    /\ last_call.args[1] = "cfg.yaml"
    /\ last_call.args[2] = "unparsable"
    /\ last_call.args[3] = "ok"
    /\ pc = "exited"
    /\ exit_code = 1

\* the loader has returned, with an empty account list
LoadedEmpty ==
    /\ entry \in Scripts
    /\ pc \notin {"parse", "load"}
    /\ accounts = <<>>
    /\ ~(last_call.fn = "load_accounts_and_posting_key" /\ ~last_call.ok)

\* C17: with an empty account list every script stops before it designates
\* the authority account: accounts[0] is never evaluated, no connection is
\* attempted, no account is fetched or claimed for, and the exit code is 1.
C17_EmptyListGuard ==
    LoadedEmpty =>
        /\ pc # "designate"
        /\ connects = 0
        /\ hive = "none"
        /\ ~AccountTouched
        /\ pc = "exited" => exit_code = 1

\* C18: no log record emitted holds the active secret, at either log level:
\* the record of the parsed arguments is made while the logger is still at
\* INFO and is dropped, and the records of get_posting_key hold only whether
\* a source was provided.
C18_SecretNeverLogged ==
    /\ posting_key # None => posting_key \notin log
    /\ Provided(args_posting_key) => args_posting_key \notin log
    /\ Provided(yaml_posting_key) => yaml_posting_key \notin log

\* a run at DEBUG with the secret given on the command line has emitted the
\* record of get_posting_key and gone on to connect
C18_Witness ==
    /\ entry = "main"
    /\ level = "DEBUG"
    /\ args_posting_key = "A"
    /\ posting_key = "A"
    /\ "True" \in log
    /\ hive = "session"

\* the loop of the run has gone through the whole list
LoopDone ==
    /\ pc \in {"exited", "returned"}
    /\ entry \in Scripts => LoopEntered /\ exit_code = 0

\* the accounts taken up so far are the head of the list, in its order, and
\* all but possibly the last of them have their outcome
C19_InOrder ==
    /\ Len(processed) <= Len(accounts)
    /\ processed = SubSeq(accounts, 1, Len(processed))
    /\ Len(outcome) <= Len(processed)
    /\ Len(processed) <= Len(outcome) + 1
    /\ pc = "loop" => Len(outcome) = Len(processed) /\ idx = Len(processed) + 1
    /\ pc \in {"fetch", "claim", "scot_authority", "scot_broadcast", "hc_fetch",
               "hc_claim"} =>
          Len(processed) = Len(outcome) + 1 /\ idx = Len(processed)
    /\ \A c \in 1..Len(calls) :
          /\ calls[c].at \in 1..Len(processed)
          /\ calls[c].for = accounts[calls[c].at]
          /\ \A d \in 1..Len(calls) : c < d => calls[c].at < calls[d].at
    /\ LoopDone => processed = accounts /\ Len(outcome) = Len(accounts)

\* C19: the accounts are taken up in list order, each position of the list
\* once; an account has its outcome recorded before the next is taken up;
\* the broadcasts are made in that order, each for the account at its
\* position; once loaded, the list is never changed.
C19_ListOrder ==
    /\ []C19_InOrder
    /\ [][pc # "load" => accounts' = accounts]_vars

\* a real run went through a list of two different accounts and broadcast for
\* both, the first account of the list first
C19_Witness ==
    /\ entry = "main"
    /\ ~dry_run
    /\ pc = "exited"
    /\ accounts = <<"bob", "alice">>
    /\ processed = <<"bob", "alice">>
    /\ Len(outcome) = 2
    /\ Len(calls) = 2
    /\ calls[1].for = "bob"
    /\ calls[2].for = "alice"

\* C20: a run makes at most one connection attempt and, for each position of
\* the account list, at most one broadcast attempt; a failed broadcast is
\* that account's failure and the loop has moved on; a failed connection
\* ends the run.
C20_NoRetry ==
    /\ connects <= 1
    /\ Len(calls) <= Len(accounts)
    /\ \A k \in 1..Len(accounts) : Cardinality(CallsAt(k)) <= 1
    /\ \A c \in 1..Len(calls) :
          ~calls[c].ok =>
              /\ calls[c].at <= Len(outcome)
              /\ outcome[calls[c].at] = "failed"
              /\ idx > calls[c].at
    /\ last_call.fn = "connect_to_hive" /\ ~last_call.ok =>
          pc = "exited" /\ connects = 1 /\ hive = "none" /\ calls = <<>>

\* the broadcast for the first account failed, the run went on to the second
\* account and broadcast for it
C20_Witness ==
    /\ entry = "scot"
    /\ ~dry_run
    /\ pc = "exited"
    /\ connects = 1
    /\ Len(calls) = 2
    /\ ~calls[1].ok
    /\ calls[2].ok
    /\ outcome = <<"failed", "claimed">>

\* C21: a script makes one connection and no more, and it has made it, with
\* success, before the first account of the list is taken up; the lookup of
\* the authority account, every lookup of a target account and every
\* broadcast go through that one session. A library function opens no
\* connection: its lookups and broadcast go through the session it is given.
C21_OneSession ==
    /\ connects <= 1
    /\ hive \in {"none", "session"}
    /\ entry \in Scripts =>
          /\ hive = "session" <=>
                connects = 1 /\ ~(last_call.fn = "connect_to_hive" /\ ~last_call.ok)
          /\ processed # <<>> \/ AccountTouched \/ main_account # None =>
                hive = "session" /\ connects = 1
    /\ entry \in Libraries => connects = 0 /\ hive = "session"
    /\ last_call.fn = "Account" => hive = "session" /\ last_call.args[2] = hive
    /\ \A c \in 1..Len(calls) : hive = "session" /\ calls[c].via = hive

\* a real run of the script that connects inside its orchestrator: one
\* connection, the authority account resolved, two accounts looked up and
\* two broadcasts made
C21_Witness ==
    /\ entry = "standalone"
    /\ ~dry_run
    /\ pc = "exited"
    /\ connects = 1
    /\ main_account # None
    /\ Len(processed) = 2
    /\ Len(calls) = 2
    /\ calls[1].via = "session"
    /\ calls[2].via = "session"

\* claim_scot_rewards_for_account has just returned for the account at
\* position rewards_for
C22_JustReturned == rewards_for >= 1 /\ Len(outcome) = rewards_for

\* C22: claim_scot_rewards_for_account returns a boolean for every account
\* it is called for and no exception leaves it; it returns True when there is
\* nothing to claim, when a dry run simulates the claim and when the
\* broadcast succeeds, and False exactly when the lookup of the authority
\* account or the broadcast raises; a dry run never looks the authority
\* account up.
C22_ClaimScotNeverRaises ==
    entry \in {"scot", "scot_client"} =>
        /\ Len(returns) = Len(outcome)
        /\ pc = "exited" => entry = "scot" /\ (processed # <<>> => exit_code = 0)
        /\ \A k \in 1..Len(returns) :
              /\ returns[k] \in BOOLEAN
              /\ returns[k] <=> outcome[k] \in {"nothing", "claimed"}
              /\ ~returns[k] <=>
                    \/ \E c \in CallsAt(k) : ~calls[c].ok
                    \/ outcome[k] = "failed" /\ CallsAt(k) = {}
              /\ (\E c \in CallsAt(k) : calls[c].ok) => returns[k] /\ outcome[k] = "claimed"
        /\ C22_JustReturned =>
              /\ rewards = <<>> => returns[rewards_for] /\ outcome[rewards_for] = "nothing"
              /\ rewards # <<>> /\ dry_run =>
                    returns[rewards_for] /\ outcome[rewards_for] = "claimed"
              /\ ~returns[rewards_for] <=>
                    last_call.fn \in {"Account", "custom_json"} /\ ~last_call.ok
              /\ outcome[rewards_for] = "failed" /\ CallsAt(rewards_for) = {} =>
                    last_call.fn = "Account" /\ ~last_call.ok
        /\ dry_run =>
              /\ last_call.fn \notin {"Account", "custom_json"}
              /\ pc \notin {"scot_authority", "scot_broadcast"}
              /\ calls = <<>>
              /\ \A k \in 1..Len(returns) : returns[k]

\* the function was called on its own in a real run, for an account with
\* rewards: the lookup of the authority account raised and False was returned
C22_Witness ==
    /\ entry = "scot_client"
    /\ ~dry_run
    /\ pc = "returned"
    /\ rewards # <<>>
    /\ last_call.fn = "Account"
    /\ ~last_call.ok
    /\ returns = <<FALSE>>
    /\ calls = <<>>

\* the lookup of a target account has just failed in a native loop
C23_TargetLookupFailed ==
    /\ entry \in {"standalone", "main"}
    /\ main_account # None
    /\ last_call.fn = "Account"
    /\ ~last_call.ok

\* the handles bound before the account at position k was taken up
C23_EarlierHandles(k) == {accounts[j] : j \in 1..(k - 1)}

\* C23: when the lookup of a target account fails in a native loop, the
\* handler's diagnostic reads a handle that is unbound (always so when it is
\* the first lookup of the run) or still that of an earlier account; no
\* exception leaves the iteration: the account is recorded as failed without
\* a broadcast, the loop has moved to the next position, and the run ends
\* only with the list exhausted, exit code 0 and, in the script that has one,
\* the summary logged.
C23_LookupFailureIsolated ==
    C23_TargetLookupFailed =>
        LET k == Len(processed)
        IN  /\ k >= 1
            /\ last_call.args[1] = accounts[k]
            /\ Len(outcome) = k
            /\ outcome[k] = "failed"
            /\ CallsAt(k) = {}
            /\ idx = k + 1
            /\ target_account \in {None} \cup C23_EarlierHandles(k)
            /\ k = 1 => target_account = None
            /\ pc \in {"loop", "exited"}
            /\ pc = "exited" =>
                  /\ exit_code = 0
                  /\ Len(outcome) = Len(accounts)
                  /\ entry = "standalone" => summary = <<success_count, Len(accounts)>>

\* both lookups of a list of two failed: the diagnostic found the handle
\* unbound each time, and the summary was reached
C23_Witness ==
    /\ C23_TargetLookupFailed
    /\ entry = "standalone"
    /\ pc = "exited"
    /\ target_account = None
    /\ Len(processed) = 2
    /\ outcome = <<"failed", "failed">>
    /\ summary = <<0, 2>>

\* every broadcast made so far succeeded
C24_BroadcastsSucceeded == \A c \in 1..Len(calls) : calls[c].ok

\* what a native run records for an account from what the chain answered,
\* whatever the mode: its snapshot holds a positive amount or it does not
C24_Verdict(snapshot) ==
    IF \E k \in 1..Len(snapshot) : snapshot[k] > 0 THEN "claimed" ELSE "nothing"

\* C24: in a native run whose broadcasts all succeed, the accounts taken up,
\* their order, the outcome recorded for each and the success count are
\* determined by the account list and by what the lookups and the reward
\* snapshots answered, in the same way for a dry run and for a real run: an
\* account fails only at its lookup or fetch, otherwise it is claimed when
\* its snapshot holds a positive amount and nothing-to-claim when not, and
\* the counter and the summary of standalone/claim-rewards.py count the
\* claimed ones. The runs differ in the broadcasts only: a real run has made
\* one for each account recorded as claimed, a dry run none.
C24_DryRealAgree ==
    entry \in {"standalone", "main"} /\ C24_BroadcastsSucceeded =>
        /\ processed = SubSeq(accounts, 1, Len(processed))
        /\ pc = "exited" /\ LoopEntered => processed = accounts
        /\ Decided => outcome[rewards_for] = C24_Verdict(fetched)
        /\ \A k \in 1..Len(outcome) :
              /\ outcome[k] \in {"claimed", "nothing", "failed"}
              /\ outcome[k] = "failed" <=> ~fetch_ok[k]
              /\ Cardinality(CallsAt(k)) =
                    IF ~dry_run /\ outcome[k] = "claimed" THEN 1 ELSE 0
        /\ Len(calls) = IF dry_run THEN 0 ELSE Count(outcome, "claimed")
        /\ entry = "standalone" =>
              /\ success_count = Count(outcome, "claimed")
              /\ summary # <<>> => summary = <<Count(outcome, "claimed"), Len(accounts)>>

\* a real run of two accounts, the first with rewards and the second without:
\* one broadcast, and the summary a dry run over the same answers gives
C24_Witness ==
    /\ entry = "standalone"
    /\ ~dry_run
    /\ pc = "exited"
    /\ processed = accounts
    /\ outcome = <<"claimed", "nothing">>
    /\ Len(calls) = 1
    /\ calls[1].ok
    /\ summary = <<1, 2>>

\* the run is over: the process has exited, or the library function returned
C25_Ended == pc \in {"exited", "returned"}

\* the run ended in its set-up, on a step that failed or on an empty list,
\* with no account taken up
C25_EndedBeforeLoop ==
    /\ entry \in Scripts
    /\ pc = "exited"
    /\ processed = <<>>
    /\ outcome = <<>>
    /\ calls = <<>>
    /\ ~last_call.ok \/ accounts = <<>>

\* the loop went through the list: one iteration for each position
C25_ListExhausted ==
    /\ Len(processed) = Len(accounts)
    /\ Len(outcome) = Len(accounts)
    /\ idx = Len(accounts) + 1
    /\ entry \in Scripts => exit_code = 0

\* C25: whatever the account list and whatever each external call does,
\* return or raise, the run ends; it ends either in its set-up with no
\* account taken up, or with the list exhausted after exactly len(accounts)
\* iterations; no run takes up more accounts than the list has positions.
C25_Terminates ==
    /\ <>C25_Ended
    /\ [](C25_Ended => C25_EndedBeforeLoop \/ C25_ListExhausted)
    /\ [](Len(processed) <= Len(accounts) /\ idx <= Len(accounts) + 1)

\* the sidechain script ended after two iterations: the index service failed
\* for the first account and the broadcast raised for the second
C25_Witness ==
    /\ entry = "scot"
    /\ ~dry_run
    /\ pc = "exited"
    /\ Len(accounts) = 2
    /\ Len(processed) = 2
    /\ fetch_ok = <<FALSE, TRUE>>
    /\ outcome = <<"nothing", "failed">>
    /\ Len(calls) = 1

====
